---- MODULE Spec2Model ----
(***************************************************************************)
(* The product-catalog data-access layer of src/dao.py: a SQLite file per  *)
(* path holding one table products(id, name, description, cost, qty), the  *)
(* connection context manager get_connection, the schema bootstrap connect *)
(* and the six CRUD functions.                                             *)
(*                                                                         *)
(* A database file is a record [exists, hasTable, rows, seq]: rows is the  *)
(* set of committed rows, seq the AUTOINCREMENT high-water mark kept in    *)
(* sqlite_sequence.  Costs are REAL columns whose values in this model are *)
(* all integral (800.0 is written 800).  Python values are tagged records  *)
(* [type, data], so that a tuple row and a mapping are different values.   *)
(***************************************************************************)
EXTENDS Integers, Sequences, FiniteSets, TLC

\* ------------------------------------------------------------------ bounds
MaxAdds == 1
MaxSeedFail == 0
NumCallers == 3

\* --------------------------------------------------------------- constants
\* The CRUD functions open 'products.db' whatever path connect was given; the
\* model follows that one file.
DefaultPath == "products.db"
Paths == {DefaultPath}
Fields == <<"name", "description", "cost", "qty">>
FieldSet == {Fields[i] : i \in 1..Len(Fields)}

StorageFailure == "storage failure"
NoSuchTable == "no such table: products"

SeedProducts ==
    << [name |-> "Backpack", description |-> "A durable and stylish backpack for daily use.", cost |-> 800, qty |-> 10],
       [name |-> "Wireless Mouse", description |-> "A sleek and ergonomic wireless mouse with a long battery life.", cost |-> 800, qty |-> 20],
       [name |-> "Bluetooth Speaker", description |-> "A portable Bluetooth speaker with high-quality sound and deep bass.", cost |-> 3000, qty |-> 30],
       [name |-> "Laptop Stand", description |-> "An adjustable laptop stand for better posture and cooling.", cost |-> 250, qty |-> 15],
       [name |-> "Notebook", description |-> "A premium notebook with thick, high-quality paper.", cost |-> 50, qty |-> 50],
       [name |-> "Smartphone Case", description |-> "A durable and stylish case for protecting your smartphone.", cost |-> 150, qty |-> 25],
       [name |-> "Power Bank", description |-> "A high-capacity power bank with fast charging support.", cost |-> 900, qty |-> 20],
       [name |-> "Headphones", description |-> "Over-ear headphones with noise cancellation and deep bass.", cost |-> 5000, qty |-> 10],
       [name |-> "Gaming Keyboard", description |-> "A mechanical gaming keyboard with RGB lighting.", cost |-> 3000, qty |-> 10],
       [name |-> "USB-C Hub", description |-> "A multi-port USB-C hub for all your connectivity needs.", cost |-> 400, qty |-> 25],
       [name |-> "Fitness Tracker", description |-> "A sleek fitness tracker with heart rate monitoring.", cost |-> 1000, qty |-> 20],
       [name |-> "Travel Mug", description |-> "An insulated travel mug that keeps your drinks hot or cold.", cost |-> 500, qty |-> 30],
       [name |-> "Desk Organizer", description |-> "A compact desk organizer for keeping your workspace tidy.", cost |-> 1200, qty |-> 40],
       [name |-> "External Hard Drive", description |-> "A portable external hard drive with 1TB of storage.", cost |-> 800, qty |-> 15],
       [name |-> "Wireless Charger", description |-> "A fast wireless charger compatible with most devices.", cost |-> 2500, qty |-> 30],
       [name |-> "Digital Camera", description |-> "A compact digital camera with 4K video recording.", cost |-> 20000, qty |-> 5],
       [name |-> "Electric Kettle", description |-> "A fast-boiling electric kettle with auto shut-off.", cost |-> 3000, qty |-> 20],
       [name |-> "Smart Watch", description |-> "A stylish smartwatch with fitness and notification features.", cost |-> 12000, qty |-> 10],
       [name |-> "LED Desk Lamp", description |-> "A modern LED desk lamp with adjustable brightness.", cost |-> 2000, qty |-> 35],
       [name |-> "Portable Projector", description |-> "A mini portable projector with HD resolution.", cost |-> 15000, qty |-> 8] >>

SeedCount == Len(SeedProducts)

\* Unicode code points of the names that occur, as Python compares str values.
CodePoints(s) ==
    CASE s = "Backpack" -> << 66, 97, 99, 107, 112, 97, 99, 107 >>
      [] s = "Wireless Mouse" -> << 87, 105, 114, 101, 108, 101, 115, 115, 32, 77, 111, 117, 115, 101 >>
      [] s = "Bluetooth Speaker" -> << 66, 108, 117, 101, 116, 111, 111, 116, 104, 32, 83, 112, 101, 97, 107, 101, 114 >>
      [] s = "Laptop Stand" -> << 76, 97, 112, 116, 111, 112, 32, 83, 116, 97, 110, 100 >>
      [] s = "Notebook" -> << 78, 111, 116, 101, 98, 111, 111, 107 >>
      [] s = "Smartphone Case" -> << 83, 109, 97, 114, 116, 112, 104, 111, 110, 101, 32, 67, 97, 115, 101 >>
      [] s = "Power Bank" -> << 80, 111, 119, 101, 114, 32, 66, 97, 110, 107 >>
      [] s = "Headphones" -> << 72, 101, 97, 100, 112, 104, 111, 110, 101, 115 >>
      [] s = "Gaming Keyboard" -> << 71, 97, 109, 105, 110, 103, 32, 75, 101, 121, 98, 111, 97, 114, 100 >>
      [] s = "USB-C Hub" -> << 85, 83, 66, 45, 67, 32, 72, 117, 98 >>
      [] s = "Fitness Tracker" -> << 70, 105, 116, 110, 101, 115, 115, 32, 84, 114, 97, 99, 107, 101, 114 >>
      [] s = "Travel Mug" -> << 84, 114, 97, 118, 101, 108, 32, 77, 117, 103 >>
      [] s = "Desk Organizer" -> << 68, 101, 115, 107, 32, 79, 114, 103, 97, 110, 105, 122, 101, 114 >>
      [] s = "External Hard Drive" -> << 69, 120, 116, 101, 114, 110, 97, 108, 32, 72, 97, 114, 100, 32, 68, 114, 105, 118, 101 >>
      [] s = "Wireless Charger" -> << 87, 105, 114, 101, 108, 101, 115, 115, 32, 67, 104, 97, 114, 103, 101, 114 >>
      [] s = "Digital Camera" -> << 68, 105, 103, 105, 116, 97, 108, 32, 67, 97, 109, 101, 114, 97 >>
      [] s = "Electric Kettle" -> << 69, 108, 101, 99, 116, 114, 105, 99, 32, 75, 101, 116, 116, 108, 101 >>
      [] s = "Smart Watch" -> << 83, 109, 97, 114, 116, 32, 87, 97, 116, 99, 104 >>
      [] s = "LED Desk Lamp" -> << 76, 69, 68, 32, 68, 101, 115, 107, 32, 76, 97, 109, 112 >>
      [] s = "Portable Projector" -> << 80, 111, 114, 116, 97, 98, 108, 101, 32, 80, 114, 111, 106, 101, 99, 116, 111, 114 >>
      [] s = "Pen" -> << 80, 101, 110 >>
      [] s = "Apple" -> << 65, 112, 112, 108, 101 >>

\* ------------------------------------------------------------------ inputs
\* Complete product dicts, and dicts that lack one or more of the four keys.
Pen == [name |-> "Pen", description |-> "Blue ink pen", cost |-> 20, qty |-> 100]
Apple == [name |-> "Apple", description |-> "Fresh apple", cost |-> 3, qty |-> 5]
CompleteProducts == {Pen, Apple}
IncompleteProducts ==
    {[f \in S |-> Pen[f]] : S \in {T \in SUBSET FieldSet : Cardinality(T) = 3 \/ T = {}}}
Products == CompleteProducts \cup IncompleteProducts
InQtys == {5}

\* Identifiers callers pass: the last seeded one, the first added one, one that
\* is never assigned.
ProductIds == {SeedCount, SeedCount + 1, SeedCount + MaxAdds + 1}

\* ------------------------------------------------------------ Python values
PyNone == [type |-> "None"]
PyTuple(t) == [type |-> "tuple", data |-> t]
PyDict(d) == [type |-> "dict", data |-> d]
PyList(s) == [type |-> "list", data |-> s]
PyRow(r) == [type |-> "Row", data |-> r]

NoError == [exc |-> "None", arg |-> ""]
KeyError(k) == [exc |-> "KeyError", arg |-> k]
OperationalError(m) == [exc |-> "OperationalError", arg |-> m]
TypeError == [exc |-> "TypeError", arg |-> "cannot convert dictionary update sequence element"]

\* str < str: lexicographic on code points.
RECURSIVE LexLess(_, _)
LexLess(a, b) ==
    IF b = <<>> THEN FALSE
    ELSE IF a = <<>> THEN TRUE
    ELSE IF Head(a) # Head(b) THEN Head(a) < Head(b)
    ELSE LexLess(Tail(a), Tail(b))

StrLess(s, t) == LexLess(CodePoints(s), CodePoints(t))

\* ---------------------------------------------------------- the database
\* rows is the table in rowid order, the order of its B-tree and of SELECT *.
AbsentDb == [exists |-> FALSE, hasTable |-> FALSE, rows |-> <<>>, seq |-> 0]

RowIds(rows) == {rows[i].id : i \in 1..Len(rows)}
RowSet(rows) == {rows[i] : i \in 1..Len(rows)}

\* The largest rowid in the table: that of the last entry of the B-tree.
MaxRowid(rows) == IF rows = <<>> THEN 0 ELSE rows[Len(rows)].id

\* os.path.exists(path)
os_path_exists(db) == db.exists

\* sqlite3.connect(path): the file comes into being, empty, when it is absent.
sqlite3_connect(db) == [db EXCEPT !.exists = TRUE]

\* A defective variant: a plain INTEGER PRIMARY KEY, which hands out max(rowid) + 1 again.
NextRowid_reuse(db) == MaxRowid(db.rows) + 1

\* id INTEGER PRIMARY KEY AUTOINCREMENT: one more than the largest rowid ever used.
NextRowid(db) ==
    (IF db.seq > MaxRowid(db.rows) THEN db.seq ELSE MaxRowid(db.rows)) + 1

\* INSERT INTO products (name, description, cost, qty) VALUES (?, ?, ?, ?)
InsertRow(db, p) ==
    LET i == NextRowid(db)
    IN  [db EXCEPT !.rows = Append(@, [id |-> i, name |-> p.name,
                                       description |-> p.description,
                                       cost |-> p.cost, qty |-> p.qty]),
                   !.seq = i]

\* executemany over the first k parameter tuples of ps.
RECURSIVE InsertMany(_, _, _)
InsertMany(db, ps, k) ==
    IF k = 0 THEN db ELSE InsertRow(InsertMany(db, ps, k - 1), ps[k])

\* A defective variant: the UPDATE without its WHERE clause.
UpdateQtyRows_all(db, id, qty) ==
    [db EXCEPT !.rows = [i \in 1..Len(@) |-> [@[i] EXCEPT !.qty = qty]]]

\* UPDATE products SET qty = ? WHERE id = ?
UpdateQtyRows(db, id, qty) ==
    [db EXCEPT !.rows = [i \in 1..Len(@) |->
                            IF @[i].id = id THEN [@[i] EXCEPT !.qty = qty] ELSE @[i]]]

\* A defective variant: an upsert, which inserts the row when no row has the identifier.
UpdateRows_upsert(db, id, p) ==
    IF \E i \in 1..Len(db.rows) : db.rows[i].id = id
    THEN [db EXCEPT !.rows = [i \in 1..Len(@) |->
                                 IF @[i].id = id
                                 THEN [id |-> id, name |-> p.name,
                                       description |-> p.description,
                                       cost |-> p.cost, qty |-> p.qty]
                                 ELSE @[i]]]
    ELSE [db EXCEPT !.rows = Append(@, [id |-> id, name |-> p.name,
                                        description |-> p.description,
                                        cost |-> p.cost, qty |-> p.qty])]

\* UPDATE products SET name = ?, description = ?, cost = ?, qty = ? WHERE id = ?
UpdateRows(db, id, p) ==
    [db EXCEPT !.rows = [i \in 1..Len(@) |->
                            IF @[i].id = id
                            THEN [@[i] EXCEPT !.name = p.name,
                                              !.description = p.description,
                                              !.cost = p.cost, !.qty = p.qty]
                            ELSE @[i]]]

\* DELETE FROM products WHERE id = ?
DeleteRows(db, id) == [db EXCEPT !.rows = SelectSeq(@, LAMBDA r : r.id # id)]

\* SELECT * FROM products WHERE id = ?
SelectById(db, id) == SelectSeq(db.rows, LAMBDA r : r.id = id)

\* What a cursor yields for a row: a tuple unless the connection's row_factory
\* is sqlite3.Row.
Fetched(row_factory, r) ==
    IF row_factory = "Row" THEN PyRow(r)
    ELSE PyTuple(<<r.id, r.name, r.description, r.cost, r.qty>>)

\* A connection as sqlite3.connect hands it out.
NewConnection == [row_factory |-> "default", state |-> "open"]

\* The outcome of the body of a with-block: the file as it stands without the
\* pending transaction (committed), as it will stand once it commits (db),
\* whether a transaction is pending, and what the body returned or raised.
Returned(committed, db, txn, value) ==
    [committed |-> committed, db |-> db, txn |-> txn,
     outcome |-> "return", error |-> NoError, value |-> value]
Raised(committed, db, txn, error) ==
    [committed |-> committed, db |-> db, txn |-> txn,
     outcome |-> "raise", error |-> error, value |-> PyNone]

\* ---------------------------------------------------- get_connection, connect
\* The finally clause of get_connection: conn.commit(), then conn.close().  A
\* commit with no transaction pending does nothing; a commit that raises leaves
\* close() unexecuted and the pending changes unwritten.
get_connection(conn, body, commitFails) ==
    IF body.txn /\ commitFails
    THEN [db |-> body.committed, outcome |-> "raise",
          error |-> OperationalError(StorageFailure), value |-> PyNone, conn |-> conn]
    ELSE [db |-> body.db, outcome |-> body.outcome, error |-> body.error,
          value |-> body.value, conn |-> [conn EXCEPT !.state = "closed"]]

\* A defective variant: the last literal product is left out.
insert_initial_data_short(db, fault, k) ==
    IF fault = "insert"
    THEN Raised(db, InsertMany(db, SeedProducts, k), TRUE, OperationalError(StorageFailure))
    ELSE Returned(db, InsertMany(db, SeedProducts, Len(SeedProducts) - 1), TRUE, PyNone)

\* insert_initial_data: executemany over the 20 literal products.  A storage
\* failure after k rows raises with those k rows in the pending transaction.
insert_initial_data(db, fault, k) ==
    IF fault = "insert"
    THEN Raised(db, InsertMany(db, SeedProducts, k), TRUE, OperationalError(StorageFailure))
    ELSE Returned(db, InsertMany(db, SeedProducts, Len(SeedProducts)), TRUE, PyNone)

\* create_tables: CREATE TABLE IF NOT EXISTS runs outside any transaction and is
\* durable at once; then the seed rows are inserted.
CreateTable(db) == [db EXCEPT !.hasTable = TRUE]

create_tables(db, fault, k) ==
    IF fault = "create"
    THEN Raised(db, db, FALSE, OperationalError(StorageFailure))
    ELSE insert_initial_data(CreateTable(db), fault, k)

\* A defective variant: the schema is created and seeded whether or not the file existed.
connect_body_always(db, exists, fault, k) == create_tables(db, fault, k)

\* The with-block of connect.
connect_body(db, exists, fault, k) ==
    IF ~exists THEN create_tables(db, fault, k) ELSE Returned(db, db, FALSE, PyNone)

\* ------------------------------------------------------------------- state
VARIABLES
    fs,         \* path -> database file
    used,       \* path -> identifiers that some committed row has ever had
    inited,     \* paths on which a connect has returned
    last,       \* the latest call: its arguments, result and connection
    adds,       \* add_product calls that have returned
    callers,    \* SpecConc: each concurrent caller of connect
    writer      \* SpecConc: path -> the caller holding the write lock, or 0

vars == <<fs, used, inited, last, adds, callers, writer>>

NoProduct == [f \in {} |-> 0]
Callers == 1..NumCallers
IdleCaller ==
    [pc |-> "idle", path |-> DefaultPath, exists |-> FALSE, pending |-> AbsentDb,
     outcome |-> "none"]

Init ==
    /\ fs = [p \in Paths |-> AbsentDb]
    /\ used = [p \in Paths |-> {}]
    /\ inited = {}
    /\ last = [op |-> "init", path |-> DefaultPath, id |-> 0, qty |-> 0,
               product |-> NoProduct, exists |-> FALSE, outcome |-> "return",
               error |-> NoError, value |-> PyNone,
               conn |-> [NewConnection EXCEPT !.state = "closed"]]
    /\ adds = 0
    /\ callers = [c \in Callers |-> IdleCaller]
    /\ writer = [p \in Paths |-> 0]

\* A call ends: the context manager exits, the file takes its new contents and
\* the call's record is kept.
Complete(op, path, id, qty, product, exists, e, value) ==
    /\ fs' = [fs EXCEPT ![path] = e.db]
    /\ used' = [used EXCEPT ![path] = @ \cup RowIds(e.db.rows)]
    /\ last' = [op |-> op, path |-> path, id |-> id, qty |-> qty,
                product |-> product, exists |-> exists, outcome |-> e.outcome,
                error |-> e.error, value |-> value, conn |-> e.conn]
    /\ UNCHANGED <<callers, writer>>

\* A fault strikes only where the call gets to: a statement that runs, a commit
\* with a transaction to write.
Strikes(fault, body) ==
    /\ fault \in {"stmt", "create", "insert"} => body.error = OperationalError(StorageFailure)
    /\ fault = "commit" => body.txn

ConnectFaults == {"none", "create", "insert", "commit"}
Faults == {"none", "stmt", "commit"}

\* connect(path): row_factory is set on the connection inside the with-block,
\* and the connection is returned after the block has exited.
connect(path, fault, k) ==
    LET exists == os_path_exists(fs[path])
        body == connect_body(sqlite3_connect(fs[path]), exists, fault, k)
        conn == IF body.outcome = "return"
                THEN [NewConnection EXCEPT !.row_factory = "Row"]
                ELSE NewConnection
        e == get_connection(conn, body, fault = "commit")
    IN  /\ Strikes(fault, body)
        /\ Complete("connect", path, 0, 0, NoProduct, exists, e,
                    IF e.outcome = "return"
                    THEN [type |-> "Connection", data |-> e.conn] ELSE PyNone)
        /\ inited' = IF e.outcome = "return" THEN inited \cup {path} ELSE inited
        /\ UNCHANGED adds

\* ------------------------------------------------------------ list_products
\* dict(row): a mapping from a sqlite3.Row; a TypeError from a plain tuple,
\* whose first element, the integer id, is no key/value pair.
CanDict(v) == v.type = "Row"
DictOf(v) == PyDict(v.data)

\* sorted(products, key=lambda x: x['name']): stable, ascending.
InsertByName(s, x) ==
    LET later == {i \in 1..Len(s) : StrLess(x.data.name, s[i].data.name)}
        at == IF later = {} THEN Len(s) + 1
              ELSE CHOOSE i \in later : \A j \in later : i <= j
    IN  SubSeq(s, 1, at - 1) \o <<x>> \o SubSeq(s, at, Len(s))

RECURSIVE SortedByName(_)
SortedByName(s) ==
    IF s = <<>> THEN <<>>
    ELSE InsertByName(SortedByName(SubSeq(s, 1, Len(s) - 1)), s[Len(s)])

list_products_body(conn, db, fault) ==
    IF ~db.hasTable THEN Raised(db, db, FALSE, OperationalError(NoSuchTable))
    ELSE IF fault = "stmt" THEN Raised(db, db, FALSE, OperationalError(StorageFailure))
    ELSE LET rows == [i \in 1..Len(db.rows) |-> Fetched(conn.row_factory, db.rows[i])]
         IN  IF \E i \in 1..Len(rows) : ~CanDict(rows[i])
             THEN Raised(db, db, FALSE, TypeError)
             ELSE Returned(db, db, FALSE,
                      PyList(SortedByName([i \in 1..Len(rows) |-> DictOf(rows[i])])))

list_products(fault) ==
    LET conn == NewConnection
        body == list_products_body(conn, sqlite3_connect(fs[DefaultPath]), fault)
        e == get_connection(conn, body, fault = "commit")
    IN  /\ Strikes(fault, body)
        /\ Complete("list", DefaultPath, 0, 0, NoProduct, FALSE, e, e.value)
        /\ UNCHANGED <<inited, adds>>

\* -------------------------------------------------------------- add_product
\* product['name'], product['description'], product['cost'], product['qty'] are
\* looked up in this order before the statement runs.
HasAllFields(product) == FieldSet \subseteq DOMAIN product
MissingKey(product) ==
    Fields[CHOOSE i \in 1..Len(Fields) :
              /\ Fields[i] \notin DOMAIN product
              /\ \A j \in 1..(i - 1) : Fields[j] \in DOMAIN product]

\* A defective variant: product.get('qty', 0) in place of product['qty'].
add_product_body_default_qty(db, product, fault) ==
    IF ~({"name", "description", "cost"} \subseteq DOMAIN product)
    THEN Raised(db, db, FALSE, KeyError(MissingKey(product)))
    ELSE IF ~db.hasTable THEN Raised(db, db, FALSE, OperationalError(NoSuchTable))
    ELSE IF fault = "stmt" THEN Raised(db, db, TRUE, OperationalError(StorageFailure))
    ELSE Returned(db, InsertRow(db, [name |-> product.name,
                                     description |-> product.description,
                                     cost |-> product.cost,
                                     qty |-> IF "qty" \in DOMAIN product
                                             THEN product.qty ELSE 0]),
                  TRUE, PyNone)

add_product_body(db, product, fault) ==
    IF ~HasAllFields(product) THEN Raised(db, db, FALSE, KeyError(MissingKey(product)))
    ELSE IF ~db.hasTable THEN Raised(db, db, FALSE, OperationalError(NoSuchTable))
    ELSE IF fault = "stmt" THEN Raised(db, db, TRUE, OperationalError(StorageFailure))
    ELSE Returned(db, InsertRow(db, product), TRUE, PyNone)

add_product(product, fault) ==
    LET body == add_product_body(sqlite3_connect(fs[DefaultPath]), product, fault)
        e == get_connection(NewConnection, body, fault = "commit")
    IN  /\ Strikes(fault, body)
        /\ e.outcome = "return" => adds < MaxAdds
        /\ Complete("add", DefaultPath, 0, 0, product, FALSE, e, e.value)
        /\ adds' = IF e.outcome = "return" THEN adds + 1 ELSE adds
        /\ UNCHANGED inited

\* -------------------------------------------------------------- get_product
\* cursor.fetchone(): the first row of the result, or None.
get_product_body(conn, db, product_id, fault) ==
    IF ~db.hasTable THEN Raised(db, db, FALSE, OperationalError(NoSuchTable))
    ELSE IF fault = "stmt" THEN Raised(db, db, FALSE, OperationalError(StorageFailure))
    ELSE LET found == SelectById(db, product_id)
         IN  Returned(db, db, FALSE,
                      IF found = <<>> THEN PyNone
                      ELSE Fetched(conn.row_factory, found[1]))

get_product(product_id, fault) ==
    LET conn == NewConnection
        body == get_product_body(conn, sqlite3_connect(fs[DefaultPath]), product_id, fault)
        e == get_connection(conn, body, fault = "commit")
    IN  /\ Strikes(fault, body)
        /\ Complete("get", DefaultPath, product_id, 0, NoProduct, FALSE, e, e.value)
        /\ UNCHANGED <<inited, adds>>

\* ------------------------------------- update_qty, delete_product, update_product
update_qty_body(db, product_id, qty, fault) ==
    IF ~db.hasTable THEN Raised(db, db, FALSE, OperationalError(NoSuchTable))
    ELSE IF fault = "stmt" THEN Raised(db, db, TRUE, OperationalError(StorageFailure))
    ELSE Returned(db, UpdateQtyRows(db, product_id, qty), TRUE, PyNone)

update_qty(product_id, qty, fault) ==
    LET body == update_qty_body(sqlite3_connect(fs[DefaultPath]), product_id, qty, fault)
        e == get_connection(NewConnection, body, fault = "commit")
    IN  /\ Strikes(fault, body)
        /\ Complete("update_qty", DefaultPath, product_id, qty, NoProduct, FALSE, e, e.value)
        /\ UNCHANGED <<inited, adds>>

delete_product_body(db, product_id, fault) ==
    IF ~db.hasTable THEN Raised(db, db, FALSE, OperationalError(NoSuchTable))
    ELSE IF fault = "stmt" THEN Raised(db, db, TRUE, OperationalError(StorageFailure))
    ELSE Returned(db, DeleteRows(db, product_id), TRUE, PyNone)

delete_product(product_id, fault) ==
    LET body == delete_product_body(sqlite3_connect(fs[DefaultPath]), product_id, fault)
        e == get_connection(NewConnection, body, fault = "commit")
    IN  /\ Strikes(fault, body)
        /\ Complete("delete", DefaultPath, product_id, 0, NoProduct, FALSE, e, e.value)
        /\ UNCHANGED <<inited, adds>>

update_product_body(db, product_id, product, fault) ==
    IF ~HasAllFields(product) THEN Raised(db, db, FALSE, KeyError(MissingKey(product)))
    ELSE IF ~db.hasTable THEN Raised(db, db, FALSE, OperationalError(NoSuchTable))
    ELSE IF fault = "stmt" THEN Raised(db, db, TRUE, OperationalError(StorageFailure))
    ELSE Returned(db, UpdateRows(db, product_id, product), TRUE, PyNone)

update_product(product_id, product, fault) ==
    LET body == update_product_body(sqlite3_connect(fs[DefaultPath]), product_id, product, fault)
        e == get_connection(NewConnection, body, fault = "commit")
    IN  /\ Strikes(fault, body)
        /\ Complete("update", DefaultPath, product_id, 0, product, FALSE, e, e.value)
        /\ UNCHANGED <<inited, adds>>

\* ------------------------------------------------- one caller, call after call
Next ==
    \/ \E path \in Paths, fault \in ConnectFaults, k \in 0..MaxSeedFail :
           connect(path, fault, k)
    \/ \E fault \in Faults : list_products(fault)
    \/ \E product \in Products, fault \in Faults : add_product(product, fault)
    \/ \E product_id \in ProductIds, fault \in Faults : get_product(product_id, fault)
    \/ \E product_id \in ProductIds, qty \in InQtys, fault \in Faults :
           update_qty(product_id, qty, fault)
    \/ \E product_id \in ProductIds, fault \in Faults : delete_product(product_id, fault)
    \/ \E product_id \in ProductIds, product \in Products, fault \in Faults :
           update_product(product_id, product, fault)

Spec == Init /\ [][Next]_vars

\* ------------------------------------------- several callers inside connect
\* Each caller runs connect once, a line at a time.  The engine lets one
\* connection at a time hold the write lock of a file, from its first INSERT
\* to its commit; a second writer waits, or gives up when its timeout expires.
Check(c, path) ==
    /\ callers[c].pc = "idle"
    /\ callers' = [callers EXCEPT ![c] = [@ EXCEPT !.pc = "open", !.path = path,
                                                   !.exists = os_path_exists(fs[path])]]
    /\ UNCHANGED <<fs, used, inited, last, adds, writer>>

Open(c) ==
    /\ callers[c].pc = "open"
    /\ fs' = [fs EXCEPT ![callers[c].path] = sqlite3_connect(@)]
    /\ callers' = [callers EXCEPT
                      ![c].pc = IF callers[c].exists THEN "exit" ELSE "create",
                      ![c].outcome = "return"]
    /\ UNCHANGED <<used, inited, last, adds, writer>>

CreateTableStep(c) ==
    /\ callers[c].pc = "create"
    /\ fs[callers[c].path].hasTable \/ writer[callers[c].path] = 0
    /\ fs' = [fs EXCEPT ![callers[c].path] = CreateTable(@)]
    /\ callers' = [callers EXCEPT ![c].pc = "insert"]
    /\ UNCHANGED <<used, inited, last, adds, writer>>

Insert(c) ==
    LET path == callers[c].path
    IN  /\ callers[c].pc = "insert"
        /\ writer[path] = 0
        /\ writer' = [writer EXCEPT ![path] = c]
        /\ callers' = [callers EXCEPT
                          ![c].pc = "exit",
                          ![c].pending = insert_initial_data(fs[path], "none", 0).db]
        /\ UNCHANGED <<fs, used, inited, last, adds>>

Busy(c) ==
    /\ callers[c].pc = "insert"
    /\ writer[callers[c].path] \notin {0, c}
    /\ callers' = [callers EXCEPT ![c].pc = "exit", ![c].outcome = "raise"]
    /\ UNCHANGED <<fs, used, inited, last, adds, writer>>

Exit(c) ==
    LET path == callers[c].path
        body == IF callers[c].outcome = "raise"
                THEN Raised(fs[path], fs[path], FALSE, OperationalError(StorageFailure))
                ELSE IF writer[path] = c
                THEN Returned(fs[path], callers[c].pending, TRUE, PyNone)
                ELSE Returned(fs[path], fs[path], FALSE, PyNone)
        e == get_connection(NewConnection, body, FALSE)
    IN  /\ callers[c].pc = "exit"
        /\ fs' = [fs EXCEPT ![path] = e.db]
        /\ used' = [used EXCEPT ![path] = @ \cup RowIds(e.db.rows)]
        /\ writer' = [writer EXCEPT ![path] = IF @ = c THEN 0 ELSE @]
        /\ inited' = IF e.outcome = "return" THEN inited \cup {path} ELSE inited
        /\ callers' = [callers EXCEPT ![c].pc = "done", ![c].pending = AbsentDb]
        /\ UNCHANGED <<last, adds>>

NextConc ==
    \E c \in Callers :
        \/ \E path \in Paths : Check(c, path)
        \/ Open(c)
        \/ CreateTableStep(c)
        \/ Insert(c)
        \/ Busy(c)
        \/ Exit(c)

SpecConc == Init /\ [][NextConc]_vars

\* ================================================================== claims
StorageFailed(call) == call.error = OperationalError(StorageFailure)
ProductOf(r) ==
    [name |-> r.name, description |-> r.description, cost |-> r.cost, qty |-> r.qty]
TupleOf(r) == PyTuple(<<r.id, r.name, r.description, r.cost, r.qty>>)
Table(db) == [hasTable |-> db.hasTable, rows |-> db.rows, seq |-> db.seq]

\* C1: a connect that finds no file at its path and returns leaves the products
\* table holding exactly the 20 seed products, in order, under 20 distinct
\* identifiers.
C1_FreshConnectSeeds ==
    [][\A p \in Paths :
          (last'.op = "connect" /\ last'.path = p /\ ~os_path_exists(fs[p])
              /\ last'.outcome = "return")
          => /\ fs'[p].exists /\ fs'[p].hasTable
             /\ Len(fs'[p].rows) = 20
             /\ [i \in 1..Len(fs'[p].rows) |-> ProductOf(fs'[p].rows[i])] = SeedProducts
             /\ Cardinality(RowIds(fs'[p].rows)) = 20]_vars

C1_Witness ==
    /\ last.op = "connect" /\ ~last.exists /\ last.outcome = "return"
    /\ Len(fs[last.path].rows) = 20

\* C2: once a connect on a path has returned, every later connect on that path
\* leaves the file, its table and its rows exactly as they were.
C2_SecondConnectNoOp ==
    [][\A p \in Paths :
          (last'.op = "connect" /\ last'.path = p /\ p \in inited)
          => fs'[p] = fs[p]]_vars

C2_Witness ==
    /\ last.op = "connect" /\ last.exists /\ last.outcome = "return"
    /\ last.path \in inited
    /\ Len(fs[last.path].rows) = 21

\* C3: the connection connect returns is open when connect returns.
C3_ConnectReturnsOpenHandle ==
    (last.op = "connect" /\ last.outcome = "return")
    => (last.value.type = "Connection" /\ last.value.data.state = "open")

\* C4: when a call has returned or raised, the connection it opened is closed,
\* whether its statement or its commit failed or not.
C4_HandleClosedOnEveryExit ==
    last.op # "init" => last.conn.state = "closed"

\* C5: with the table in place and no storage failure, list_products returns a
\* list holding one mapping per row, each with the row's five fields, in
\* ascending order of name.
C5_ListSortedRecords ==
    (last.op = "list" /\ fs[DefaultPath].hasTable /\ ~StorageFailed(last))
    => /\ last.outcome = "return"
       /\ last.value.type = "list"
       /\ Len(last.value.data) = Len(fs[DefaultPath].rows)
       /\ \A i \in 1..Len(last.value.data) : last.value.data[i].type = "dict"
       /\ {last.value.data[i].data : i \in 1..Len(last.value.data)}
              = RowSet(fs[DefaultPath].rows)
       /\ \A i \in 1..(Len(last.value.data) - 1) :
              ~StrLess(last.value.data[i + 1].data.name, last.value.data[i].data.name)

\* C6: with the table in place and no storage failure, add_product of a dict
\* with all four keys returns and appends exactly one row, carrying the supplied
\* name, description, cost and qty under an identifier no row has or ever had,
\* every earlier row staying as it was; a get_product of that identifier right
\* after returns that row's five values.
C6_AddThenGet ==
    [][LET db == fs[DefaultPath]
           after == fs'[DefaultPath]
       IN  /\ (last'.op = "add" /\ HasAllFields(last'.product) /\ db.hasTable
                  /\ ~StorageFailed(last'))
              => /\ last'.outcome = "return"
                 /\ Len(after.rows) = Len(db.rows) + 1
                 /\ SubSeq(after.rows, 1, Len(db.rows)) = db.rows
                 /\ ProductOf(after.rows[Len(after.rows)]) = last'.product
                 /\ after.rows[Len(after.rows)].id \notin used[DefaultPath]
                 /\ after.rows[Len(after.rows)].id \notin RowIds(db.rows)
                 /\ Cardinality(RowIds(after.rows)) = Len(after.rows)
           /\ (last.op = "add" /\ last.outcome = "return" /\ last'.op = "get"
                  /\ last'.id = db.rows[Len(db.rows)].id /\ ~StorageFailed(last'))
              => /\ last'.outcome = "return"
                 /\ last'.value = PyTuple(<<last'.id, last.product.name,
                                            last.product.description,
                                            last.product.cost, last.product.qty>>)]_vars

C6_Witness ==
    /\ last.op = "get" /\ last.outcome = "return" /\ last.id = 21
    /\ last.value = PyTuple(<<21, "Pen", "Blue ink pen", 20, 100>>)
    /\ adds = 1 /\ Len(fs[DefaultPath].rows) = 21

\* C7: an update_qty that returns, on an identifier some row has, changes that
\* row's qty to the given value and nothing else: the row's other fields, every
\* other row and the number of rows stay; a get_product of the identifier right
\* after returns the row with the new qty.
C7_UpdateQtyFrame ==
    [][LET db == fs[DefaultPath]
           after == fs'[DefaultPath]
       IN  /\ (last'.op = "update_qty" /\ db.hasTable /\ last'.id \in RowIds(db.rows)
                  /\ ~StorageFailed(last'))
              => /\ last'.outcome = "return"
                 /\ Len(after.rows) = Len(db.rows)
                 /\ \A i \in 1..Len(db.rows) :
                        after.rows[i] = IF db.rows[i].id = last'.id
                                        THEN [db.rows[i] EXCEPT !.qty = last'.qty]
                                        ELSE db.rows[i]
           /\ (last.op = "update_qty" /\ last.outcome = "return"
                  /\ last.id \in RowIds(db.rows)
                  /\ last'.op = "get" /\ last'.id = last.id /\ ~StorageFailed(last'))
              => /\ last'.outcome = "return"
                 /\ last'.value.type = "tuple"
                 /\ last'.value.data[1] = last.id
                 /\ last'.value.data[5] = last.qty
                 /\ \E i \in 1..Len(db.rows) : last'.value = TupleOf(db.rows[i])]_vars

C7_Witness ==
    /\ last.op = "get" /\ last.outcome = "return" /\ last.id = 20
    /\ last.value = PyTuple(<<20, "Portable Projector",
                              "A mini portable projector with HD resolution.", 15000, 5>>)

\* C8: with the table in place and no storage failure, update_qty, update_product
\* with a complete dict and delete_product on an identifier no row has return
\* and leave the file as it was, and get_product on it returns None.
C8_MissingIdNoOp ==
    [][LET db == fs[DefaultPath]
       IN  (db.hasTable /\ last'.id \notin RowIds(db.rows) /\ ~StorageFailed(last'))
           => /\ (last'.op \in {"update_qty", "delete"}
                     \/ (last'.op = "update" /\ HasAllFields(last'.product)))
                 => (last'.outcome = "return" /\ fs'[DefaultPath] = db)
              /\ last'.op = "get"
                 => (last'.outcome = "return" /\ last'.value = PyNone
                        /\ fs'[DefaultPath] = db)]_vars

C8_Witness ==
    /\ last.op \in {"update_qty", "update", "delete"}
    /\ last.outcome = "return"
    /\ fs[DefaultPath].hasTable
    /\ Len(fs[DefaultPath].rows) = 20
    /\ last.id \notin used[DefaultPath]

\* C9: add_product or update_product of a dict lacking one of name, description,
\* cost, qty raises KeyError naming a key the dict lacks, and the table, its
\* rows and its identifier sequence are as before the call.
C9_MissingFieldRaises ==
    [][(last'.op \in {"add", "update"} /\ ~HasAllFields(last'.product))
       => /\ last'.outcome = "raise"
          /\ last'.error.exc = "KeyError"
          /\ last'.error.arg \in FieldSet \ DOMAIN last'.product
          /\ Table(fs'[DefaultPath]) = Table(fs[DefaultPath])]_vars

C9_Witness ==
    /\ last.op \in {"add", "update"}
    /\ last.outcome = "raise"
    /\ last.error = KeyError("qty")
    /\ Len(fs[DefaultPath].rows) = 20

\* C10: when every concurrent caller of connect has finished, the table of a
\* path they connected to holds exactly the 20 seed rows.
C10_SeededOnce ==
    (\A c \in Callers : callers[c].pc = "done")
    => \A p \in {callers[c].path : c \in Callers} : Len(fs[p].rows) = 20
====
